---- MODULE Spec2Model ----
(***************************************************************************)
(* Model of s3ArchiveStream (src/src/index.ts, lines 1-242).               *)
(*                                                                         *)
(* Strings are sequences of one-character strings, so that endsWith,      *)
(* slice, substring and lastIndexOf are computed as the code computes      *)
(* them.  One bucket group is one async task; a task suspends only at an   *)
(* "await s3Client.send(...)".  The archiver instance is an external       *)
(* collaborator: the model records the calls made on it and the 'error'    *)
(* events it emits.                                                        *)
(***************************************************************************)
EXTENDS Integers, Sequences, FiniteSets, TLC

\* ------------------------------------------------------------------ bounds
MaxEntries == 2       \* longest entry list handed to s3ArchiveStream
PageMax == 1          \* most keys one ListObjectsV2 page carries
MaxEmptyPages == 1    \* truncated pages that end a listing short or empty
MaxKeyLen == 3        \* longest s3Key of the one-entry builds

\* ------------------------------------------------------------- strings
EndsWithSlash(s) == Len(s) > 0 /\ s[Len(s)] = "/"

\* String.prototype.slice(n) for 0 <= n
Slice(s, n) == SubSeq(s, n + 1, Len(s))

\* String.prototype.lastIndexOf('/'), 0-based, -1 when absent
LastIndexOfSlash(s) ==
    LET idx == {k \in 1..Len(s) : s[k] = "/"}
    IN  IF idx = {} THEN -1 ELSE (CHOOSE k \in idx : \A m \in idx : m <= k) - 1

StartsWith(s, p) == Len(p) <= Len(s) /\ SubSeq(s, 1, Len(p)) = p

\* ------------------------------------------------------------- universe
Buckets == {"A", "B", "C"}

NoName == <<>>
\* a continuation token: where the listing resumes (off keys delivered) and how
\* many short pages were served; no page ever returns the token it was asked with
NoToken == [off |-> 0, emp |-> 0]

\* The objects held by the blob store, per bucket, in listing order.
Store ==
    [b \in Buckets |->
        IF b = "A"
        THEN << <<"d", "/">>, <<"d", "/", "a">>, <<"f">> >>
        ELSE IF b = "B"
        THEN << <<"d", "/", "s", "/", "b">>, <<"f">> >>
        ELSE << <<"d", "/">>, <<"d", "/", "a">>, <<"d", "/", "s", "/">>,
                <<"d", "/", "s", "/", "b">>, <<"m", "/">>, <<"m", "/", "s", "/">> >>]

FileEntry(b, key, hasName, name, preserve, rest) ==
    [type |-> "file", s3BucketName |-> b, key |-> key, hasName |-> hasName,
     name |-> name, preserveFolderStructure |-> preserve, rest |-> rest]

DirEntry(b, dir, preserve, rest) ==
    [type |-> "dir", s3BucketName |-> b, key |-> dir, hasName |-> FALSE,
     name |-> NoName, preserveFolderStructure |-> preserve, rest |-> rest]

\* The entries a caller may put in the list.
EntryPool ==
    { FileEntry("A", <<"f">>, FALSE, NoName, FALSE, "r1"),
      FileEntry("A", <<"d", "/">>, FALSE, NoName, FALSE, "r1"),
      DirEntry("A", <<"d">>, FALSE, "r3"),
      DirEntry("A", <<"e">>, FALSE, "r1"),
      FileEntry("B", <<"f">>, TRUE, <<"n">>, TRUE, "r2"),
      DirEntry("B", <<"d", "/">>, TRUE, "r3") }

\* every string over the two characters of at most n characters
RECURSIVE Strings(_)
Strings(n) ==
    IF n = 0 THEN {<<>>}
    ELSE LET shorter == Strings(n - 1)
         IN  shorter \cup {Append(t, c) : t \in {u \in shorter : Len(u) = n - 1}, c \in {"a", "/"}}

\* The entry of a build of one entry on bucket "C": a file entry with any
\* key, with or without explicit name (the empty name included), or a
\* directory entry, each with and without preserveFolderStructure.
SinglePool ==
    { FileEntry("C", key, nm[1], nm[2], preserve, "r1")
        : key \in Strings(MaxKeyLen),
          nm \in {<<FALSE, NoName>>, <<TRUE, <<>> >>, <<TRUE, <<"n">> >>},
          preserve \in BOOLEAN } \cup
    { DirEntry("C", dir, preserve, "r2")
        : dir \in { <<"d">>, <<"d", "/">>, <<"d", "/", "/">>, <<"d", "/", "s">>,
                    <<"m", "/">>, <<"e">>, <<>> },
          preserve \in BOOLEAN }

RECURSIVE SeqsUpTo(_, _)
SeqsUpTo(S, n) ==
    IF n = 0 THEN {<<>>}
    ELSE LET shorter == SeqsUpTo(S, n - 1)
         IN  shorter \cup {Append(s, e) : s \in {t \in shorter : Len(t) = n - 1}, e \in S}

\* clientOrClients: one shared S3Client, or a record bucket name -> S3Client
\* (one with a client for each bucket, one that lacks a client for bucket "B")
Routings ==
    { [single |-> TRUE, client |-> "cs", map |-> [b \in {} |-> "cs"]] } \cup
    { [single |-> FALSE, client |-> "cs", map |-> [b \in D |-> IF b = "A" THEN "c1" ELSE "c2"]]
        : D \in {{"A", "B"}, {"A"}} }

\* --------------------------------------------------------------- errors
NoErr == [kind |-> "none", arg |-> <<>>, cause |-> "none"]

NoS3ClientProvidedForBucketError(s3BucketName) ==
    [kind |-> "NoS3ClientProvidedForBucketError", arg |-> <<s3BucketName>>, cause |-> "none"]

InvalidS3KeyError(s3Key) ==
    [kind |-> "InvalidS3KeyError", arg |-> s3Key, cause |-> "none"]

FailedToListObjectsError(prefix, e) ==
    [kind |-> "FailedToListObjectsError", arg |-> prefix, cause |-> e]

FailedToGetS3ObjectStreamError(s3Key, e) ==
    [kind |-> "FailedToGetS3ObjectStreamError", arg |-> s3Key, cause |-> e]

\* what archiver reports: append on a closed queue, and a failed finalize
QueueClosed == [kind |-> "ArchiverError", arg |-> <<>>, cause |-> "QUEUECLOSED"]
FinalizeFailed == [kind |-> "ArchiverError", arg |-> <<>>, cause |-> "FINALIZE"]

\* ------------------------------------------------------------- variables
VARIABLES
    entries,     \* the entry list passed by the caller
    routing,     \* clientOrClients
    pc,          \* "start" before the call, "returned" once s3ArchiveStream returned
    order,       \* Object.entries(groupedS3Buckets): bucket names in dispatch order
    groups,      \* bucket name -> state of that bucket's async task
    all,         \* state of the Promise.all promise
    chain,       \* position in the .then(...).catch(...) chain
    archive,     \* calls received and events emitted by the archiver instance
    escaped      \* errors thrown to the caller or left as unhandled rejections

vars == <<entries, routing, pc, order, groups, all, chain, archive, escaped>>

\* ----------------------------------------------------------- the writer
NewArchive ==
    [finalizeCalls |-> 0, abortCalls |-> 0, destroyCalls |-> 0,
     finalize |-> FALSE, aborted |-> FALSE, destroyed |-> FALSE,
     appendAfterFinalize |-> 0, appendAfterAbort |-> 0, abortAfterFinalize |-> 0,
     drained |-> 0, errors |-> <<>>]

Closed(a) == a.finalize \/ a.aborted

\* archive.finalize()
ArchiveFinalize(a) ==
    [a EXCEPT !.finalizeCalls = @ + 1, !.finalize = TRUE]

\* archive.destroy(e): the stream emits 'error' with e, once
ArchiveDestroy(a, e) ==
    [a EXCEPT !.destroyCalls = @ + 1, !.destroyed = TRUE,
              !.errors = IF a.destroyed THEN @ ELSE Append(@, e)]

\* archive.abort()
ArchiveAbort(a) ==
    [a EXCEPT !.abortCalls = @ + 1, !.aborted = TRUE,
              !.abortAfterFinalize = IF a.finalize THEN @ + 1 ELSE @]

\* archive.append(stream, data): a closed archiver emits 'error' QUEUECLOSED.
\* The call queues the stream and returns; an append that throws is the
\* action AppendThrows, the draining of the queue the action Drain.
ArchiveAppend(a) ==
    IF Closed(a)
    THEN [a EXCEPT !.errors = Append(@, QueueClosed),
                   !.appendAfterFinalize = IF a.finalize THEN @ + 1 ELSE @,
                   !.appendAfterAbort = IF a.aborted THEN @ + 1 ELSE @]
    ELSE a

\* ------------------------------------------------------- naming
\* line 118
Prefix(s3Dir) == IF EndsWithSlash(s3Dir) THEN s3Dir ELSE Append(s3Dir, "/")

\* variant: a listed key is named by its last segment
DirEntryNameLastSegment(Key, prefix, preserveFolderStructure) ==
    IF preserveFolderStructure THEN Key ELSE Slice(Key, LastIndexOfSlash(Key) + 1)

\* line 142
DirEntryName(Key, prefix, preserveFolderStructure) ==
    IF preserveFolderStructure THEN Key ELSE Slice(Key, Len(prefix))

\* variant: preserveFolderStructure is looked at before the explicit name
FileEntryNamePreserveFirst(e) ==
    IF e.preserveFolderStructure THEN e.key
    ELSE IF e.hasName THEN e.name
    ELSE Slice(e.key, LastIndexOfSlash(e.key) + 1)

\* lines 189-190
FileEntryName(e) ==
    IF e.hasName THEN e.name
    ELSE IF e.preserveFolderStructure THEN e.key
    ELSE Slice(e.key, LastIndexOfSlash(e.key) + 1)

\* The own properties of an entry object; "meta" stands for the properties
\* that are meant for the archiver (mode, date, ...), with the value e.rest.
EntryObject(e) ==
    LET keyField == IF e.type = "dir" THEN "s3Dir" ELSE "s3Key"
        fields == {"s3BucketName", keyField, "preserveFolderStructure", "meta"} \cup
                  (IF e.hasName THEN {"name"} ELSE {})
    IN  [f \in fields |->
            CASE f = "s3BucketName" -> e.s3BucketName
              [] f = keyField -> e.key
              [] f = "preserveFolderStructure" -> e.preserveFolderStructure
              [] f = "name" -> e.name
              [] OTHER -> e.rest]

\* the rest of an object destructuring: o without the named properties
Omit(o, names) == [f \in DOMAIN o \ names |-> o[f]]

\* variant: the whole entry is spread into the data of the append
AppendDataWholeEntry(e) ==
    LET o == EntryObject(e)
    IN  [f \in DOMAIN o \cup {"name"} |-> IF f = "name" THEN FileEntryName(e) ELSE o[f]]

\* lines 166 and 193: { ...rest, name: archiveEntryName }
AppendData(e) ==
    LET rest == Omit(EntryObject(e),
                     {"s3BucketName", "s3Key", "preserveFolderStructure", "name"})
    IN  [f \in DOMAIN rest \cup {"name"} |-> IF f = "name" THEN FileEntryName(e) ELSE rest[f]]


\* ------------------------------------------------------ one bucket group
\* sent: the commands sent; settled: how many of them settled; pages: the
\* ListObjectsV2 outputs received; bodies: what each settled GetObject send
\* brought; appends: the archive.append calls made.
\* st: "get" / "list" while a send is awaited, "done" when appendArchiveEntries
\* resolved, "failed" when the task rejected with err.
\* i: index in archiveEntries of the entry being processed; j > 0: index in
\* directoryEntries inside the nested appendArchiveEntries call.
NewGroup(b, es) ==
    [st |-> "new", bucket |-> b, client |-> "none", archiveEntries |-> es, i |-> 1,
     prefix |-> <<>>, continuationToken |-> NoToken, directoryEntries |-> <<>>, j |-> 0,
     cur |-> FileEntry(b, <<>>, FALSE, NoName, FALSE, "r1"),
     err |-> NoErr, sent |-> <<>>, appends |-> <<>>, pages |-> <<>>, bodies |-> <<>>,
     settled |-> 0]

Throw(g, e) == [g EXCEPT !.st = "failed", !.err = e]

\* s3Client.send(new ListObjectsV2Command({Bucket, Prefix, ContinuationToken}))
SendList(g, e) ==
    [g EXCEPT !.st = "list",
              !.sent = Append(@, [cmd |-> "ListObjectsV2", client |-> g.client,
                                  Bucket |-> e.s3BucketName, Key |-> g.prefix,
                                  Token |-> g.continuationToken])]

\* variant: the command is sent a second time before the first is awaited
SendGetTwice(g, e) ==
    LET c == [cmd |-> "GetObject", client |-> g.client, Bucket |-> e.s3BucketName,
              Key |-> e.key, Token |-> NoToken]
    IN  [g EXCEPT !.st = "get", !.cur = e, !.sent = @ \o <<c, c>>]

\* s3Client.send(new GetObjectCommand({Bucket, Key}))
SendGet(g, e) ==
    [g EXCEPT !.st = "get", !.cur = e,
              !.sent = Append(@, [cmd |-> "GetObject", client |-> g.client,
                                  Bucket |-> e.s3BucketName, Key |-> e.key,
                                  Token |-> NoToken])]

\* variant: the key is not checked before the fetch
RunFileUnchecked(g, e) == SendGet(g, e)

\* lines 167-180: a file entry, up to its await
RunFile(g, e) ==
    IF e.key = <<>> \/ EndsWithSlash(e.key)
    THEN Throw(g, InvalidS3KeyError(e.key))
    ELSE SendGet(g, e)

\* lines 113-198: run the loop from the current position to the next await,
\* to the end of the list, or to a throw
RECURSIVE RunEntries(_)
\* variant: a directory entry is fetched as if it were a file entry
RunEntriesDirAsFile(g) ==
    IF g.j > 0
    THEN IF g.j > Len(g.directoryEntries)
         THEN RunEntries([g EXCEPT !.j = 0, !.directoryEntries = <<>>, !.i = g.i + 1])
         ELSE RunFile(g, g.directoryEntries[g.j])
    ELSE IF g.i > Len(g.archiveEntries)
         THEN [g EXCEPT !.st = "done"]
         ELSE RunFile(g, g.archiveEntries[g.i])

RunEntries(g) ==
    IF g.j > 0
    THEN IF g.j > Len(g.directoryEntries)
         THEN RunEntries([g EXCEPT !.j = 0, !.directoryEntries = <<>>, !.i = g.i + 1])
         ELSE RunFile(g, g.directoryEntries[g.j])
    ELSE IF g.i > Len(g.archiveEntries)
         THEN [g EXCEPT !.st = "done"]
         ELSE LET e == g.archiveEntries[g.i]
              IN  IF e.type = "dir"
                  THEN SendList([g EXCEPT !.prefix = Prefix(e.key),
                                          !.directoryEntries = <<>>,
                                          !.continuationToken = NoToken], e)
                  ELSE RunFile(g, e)

\* variant: with a mapping, the client of whichever bucket comes first
ResolveClientAny(r, s3BucketName) ==
    IF r.single THEN r.client
    ELSE IF s3BucketName \in DOMAIN r.map
         THEN r.map[CHOOSE b \in DOMAIN r.map : \A o \in DOMAIN r.map : b = "A" \/ o # "A"]
         ELSE "none"

\* line 215
ResolveClient(r, s3BucketName) ==
    IF r.single THEN r.client
    ELSE IF s3BucketName \in DOMAIN r.map THEN r.map[s3BucketName] ELSE "none"

\* variant: the client is not checked before the entries are processed
DispatchUnchecked(r, b, es) ==
    RunEntries([NewGroup(b, es) EXCEPT !.client = ResolveClient(r, b)])

\* lines 213-222: the async callback of one group, up to its first await
Dispatch(r, b, es) ==
    LET client == ResolveClient(r, b)
        g == [NewGroup(b, es) EXCEPT !.client = client]
    IN  IF client = "none"
        THEN Throw(g, NoS3ClientProvidedForBucketError(b))
        ELSE RunEntries(g)

\* variant: unshift instead of push
RECURSIVE Reverse(_)
Reverse(q) == IF q = <<>> THEN <<>> ELSE Append(Reverse(Tail(q)), Head(q))

GroupedS3BucketsUnshift(es) ==
    [b \in {es[k].s3BucketName : k \in 1..Len(es)} |->
        Reverse(SelectSeq(es, LAMBDA e : e.s3BucketName = b))]

\* lines 202-208
GroupedS3Buckets(es) ==
    [b \in {es[k].s3BucketName : k \in 1..Len(es)} |->
        SelectSeq(es, LAMBDA e : e.s3BucketName = b)]

\* Object.entries order: keys in order of first insertion
RECURSIVE BucketOrder(_)
BucketOrder(es) ==
    IF es = <<>> THEN <<>>
    ELSE LET front == BucketOrder(SubSeq(es, 1, Len(es) - 1))
             b == es[Len(es)].s3BucketName
         IN  IF \E k \in 1..Len(front) : front[k] = b THEN front ELSE Append(front, b)

\* ------------------------------------------------------------ Promise.all
Pending == [st |-> "pending", reason |-> NoErr]

\* variant: fulfilled as soon as one group promise is (Promise.any)
PromiseAnyFulfilled(gs) == \E b \in DOMAIN gs : gs[b].st = "done"

\* variant: without any group promise the promise stays pending
PromiseAllFulfilledNonEmpty(gs) ==
    DOMAIN gs # {} /\ \A b \in DOMAIN gs : gs[b].st = "done"

PromiseAllFulfilled(gs) == \A b \in DOMAIN gs : gs[b].st = "done"

\* variant: waits for every group promise and never rejects (Promise.allSettled)
PromiseAllSettled(p, gs, ord) ==
    IF p.st # "pending" THEN p
    ELSE IF \A b \in DOMAIN gs : gs[b].st \in {"done", "failed"}
    THEN [st |-> "fulfilled", reason |-> NoErr]
    ELSE p

\* variant: the rejection of a group promise does not settle the promise
PromiseAllDropsRejection(p, gs, ord) ==
    IF p.st # "pending" THEN p
    ELSE IF PromiseAllFulfilled(gs) THEN [st |-> "fulfilled", reason |-> NoErr]
    ELSE p

\* Promise.all after the group promises changed: rejected with the first
\* rejection (in dispatch order when several reject in the same run),
\* fulfilled when every group promise is fulfilled; settled once.
PromiseAll(p, gs, ord) ==
    IF p.st # "pending" THEN p
    ELSE IF \E k \in 1..Len(ord) : gs[ord[k]].st = "failed"
    THEN LET k == CHOOSE m \in 1..Len(ord) :
                    /\ gs[ord[m]].st = "failed"
                    /\ \A n \in 1..(m - 1) : gs[ord[n]].st # "failed"
         IN  [st |-> "rejected", reason |-> gs[ord[k]].err]
    ELSE IF PromiseAllFulfilled(gs) THEN [st |-> "fulfilled", reason |-> NoErr]
    ELSE p

\* ----------------------------------------------------------------- Init
Init ==
    /\ entries \in SeqsUpTo(EntryPool, MaxEntries)
    /\ routing \in Routings
    /\ pc = "start"
    /\ order = <<>>
    /\ groups = [b \in {} |-> NewGroup(b, <<>>)]
    /\ all = Pending
    /\ chain = "pending"
    /\ archive = NewArchive
    /\ escaped = <<>>

\* variant: finalize is called before returning when nothing is left to await
S3ArchiveStreamEager ==
    /\ pc = "start"
    /\ LET grouped == GroupedS3Buckets(entries)
           ord == BucketOrder(entries)
           gs == [b \in DOMAIN grouped |-> Dispatch(routing, b, grouped[b])]
           p == PromiseAll(Pending, gs, ord)
       IN  /\ order' = ord
           /\ groups' = gs
           /\ all' = p
           /\ archive' = IF p.st = "fulfilled" THEN ArchiveFinalize(archive) ELSE archive
           /\ chain' = IF p.st = "fulfilled" THEN "finalizing" ELSE chain
    /\ pc' = "returned"
    /\ UNCHANGED <<entries, routing, escaped>>

\* variant: the map callback is not async, a missing client stops the dispatch
S3ArchiveStreamStopAtFailure ==
    /\ pc = "start"
    /\ LET grouped == GroupedS3Buckets(entries)
           ord == BucketOrder(entries)
           all_gs == [b \in DOMAIN grouped |-> Dispatch(routing, b, grouped[b])]
           Stopped(b) == \E m, n \in 1..Len(ord) :
                            /\ m < n /\ ord[n] = b
                            /\ all_gs[ord[m]].err.kind = "NoS3ClientProvidedForBucketError"
           gs == [b \in DOMAIN grouped |->
                    IF Stopped(b) THEN NewGroup(b, grouped[b]) ELSE all_gs[b]]
       IN  /\ order' = ord
           /\ groups' = gs
           /\ all' = PromiseAll(Pending, gs, ord)
    /\ pc' = "returned"
    /\ UNCHANGED <<entries, routing, chain, archive, escaped>>

\* variant: the grouping takes the entries out of the caller's list
\* (entries.shift() in place of reduce)
S3ArchiveStreamConsuming ==
    /\ pc = "start"
    /\ LET grouped == GroupedS3Buckets(entries)
           ord == BucketOrder(entries)
           gs == [b \in DOMAIN grouped |-> Dispatch(routing, b, grouped[b])]
       IN  /\ order' = ord
           /\ groups' = gs
           /\ all' = PromiseAll(Pending, gs, ord)
    /\ pc' = "returned"
    /\ entries' = <<>>
    /\ UNCHANGED <<routing, chain, archive, escaped>>

\* lines 97-233: the synchronous part of s3ArchiveStream, to its return
S3ArchiveStream ==
    /\ pc = "start"
    /\ LET grouped == GroupedS3Buckets(entries)
           ord == BucketOrder(entries)
           gs == [b \in DOMAIN grouped |-> Dispatch(routing, b, grouped[b])]
       IN  /\ order' = ord
           /\ groups' = gs
           /\ all' = PromiseAll(Pending, gs, ord)
    /\ pc' = "returned"
    /\ UNCHANGED <<entries, routing, chain, archive, escaped>>


\* ------------------------------------------------------- the blob store
GetOutcomes == {"ok", "error", "nobody", "notreadable"}

GetCause(o) ==
    IF o = "error" THEN "S3Error" ELSE "S3 Object stream is null or not a Readable stream."

Matching(req) == SelectSeq(Store[req.Bucket], LAMBDA k : StartsWith(k, req.Key))

\* The pages the store may answer a ListObjectsV2 request with.  The request's
\* token says where the listing resumes; a page carries at most PageMax keys,
\* is truncated while keys remain, and may at most MaxEmptyPages times be a
\* truncated page that is empty or that is followed by nothing.
ListPages(req) ==
    LET M == Matching(req)
        off == req.Token.off
        rem == Len(M) - off
        top == IF rem < PageMax THEN rem ELSE PageMax
        Page(k, t) ==
            [ContinuationToken |-> req.Token,
             KeyCount |-> k,
             Contents |-> SubSeq(M, off + 1, off + k),
             IsTruncated |-> t,
             NextContinuationToken |->
                 IF t THEN [off |-> off + k,
                            emp |-> IF k = 0 \/ rem - k = 0
                                    THEN req.Token.emp + 1 ELSE req.Token.emp]
                 ELSE NoToken]
        Allowed(k, t) ==
            /\ (k = 0 => rem = 0 \/ t)
            /\ (rem - k > 0 => t)
            /\ (t /\ (k = 0 \/ rem - k = 0) => req.Token.emp < MaxEmptyPages)
    IN  { Page(kt[1], kt[2]) : kt \in {x \in (0..top) \X BOOLEAN : Allowed(x[1], x[2])} }

LastSent(g) == g.sent[Len(g.sent)]

\* ------------------------------------------------ continuations of a group
\* lines 140-152: the entries pushed for one page
RECURSIVE PushKeys(_, _, _)
\* variant: every listed key becomes an entry, folder markers included
PushKeysAll(dir, prefix, Contents) ==
    [n \in 1..Len(Contents) |->
        FileEntry(dir.s3BucketName, Contents[n], TRUE,
                  DirEntryName(Contents[n], prefix, dir.preserveFolderStructure),
                  FALSE, dir.rest)]

PushKeys(dir, prefix, Contents) ==
    IF Contents = <<>> THEN <<>>
    ELSE LET Key == Head(Contents)
             tail == PushKeys(dir, prefix, Tail(Contents))
         IN  IF ~EndsWithSlash(Key) /\ Key # <<>>
             THEN <<FileEntry(dir.s3BucketName, Key, TRUE,
                              DirEntryName(Key, prefix, dir.preserveFolderStructure),
                              FALSE, dir.rest)>> \o tail
             ELSE tail

\* variant: a listing that ends without any entry is an empty directory
OnListResponseNoEntryIsEmpty(g, resp) ==
    LET dir == g.archiveEntries[g.i]
    IN  IF resp.ContinuationToken = NoToken /\ resp.KeyCount = 0
        THEN Throw(g, FailedToListObjectsError(g.prefix, "The provided directory is empty."))
        ELSE LET g1 == [g EXCEPT !.continuationToken = resp.NextContinuationToken,
                                 !.directoryEntries = @ \o PushKeys(dir, g.prefix, resp.Contents)]
             IN  IF ~resp.IsTruncated
                 THEN IF g1.directoryEntries = <<>>
                      THEN Throw(g, FailedToListObjectsError(g.prefix,
                                        "The provided directory is empty."))
                      ELSE RunEntries([g1 EXCEPT !.j = 1])
                 ELSE SendList(g1, dir)

\* variant: every page without keys is an empty directory
OnListResponseAnyEmptyPage(g, resp) ==
    LET dir == g.archiveEntries[g.i]
    IN  IF resp.KeyCount = 0
        THEN Throw(g, FailedToListObjectsError(g.prefix, "The provided directory is empty."))
        ELSE LET g1 == [g EXCEPT !.continuationToken = resp.NextContinuationToken,
                                 !.directoryEntries = @ \o PushKeys(dir, g.prefix, resp.Contents)]
             IN  IF ~resp.IsTruncated
                 THEN RunEntries([g1 EXCEPT !.j = 1])
                 ELSE SendList(g1, dir)

\* variant: the listing stops after its first page
OnListResponseFirstPageOnly(g, resp) ==
    LET dir == g.archiveEntries[g.i]
    IN  IF resp.ContinuationToken = NoToken /\ resp.KeyCount = 0
        THEN Throw(g, FailedToListObjectsError(g.prefix, "The provided directory is empty."))
        ELSE RunEntries([g EXCEPT !.continuationToken = resp.NextContinuationToken,
                                  !.directoryEntries = @ \o PushKeys(dir, g.prefix, resp.Contents),
                                  !.j = 1])

\* variant: each page replaces the entries collected so far
OnListResponseLastPage(g, resp) ==
    LET dir == g.archiveEntries[g.i]
    IN  IF resp.ContinuationToken = NoToken /\ resp.KeyCount = 0
        THEN Throw(g, FailedToListObjectsError(g.prefix, "The provided directory is empty."))
        ELSE LET g1 == [g EXCEPT !.continuationToken = resp.NextContinuationToken,
                                 !.directoryEntries = PushKeys(dir, g.prefix, resp.Contents)]
             IN  IF ~resp.IsTruncated
                 THEN RunEntries([g1 EXCEPT !.j = 1])
                 ELSE SendList(g1, dir)

\* lines 134-165: after a ListObjectsV2 response arrived
OnListResponse(g, resp) ==
    LET dir == g.archiveEntries[g.i]
    IN  IF resp.ContinuationToken = NoToken /\ resp.KeyCount = 0
        THEN Throw(g, FailedToListObjectsError(g.prefix, "The provided directory is empty."))
        ELSE LET g1 == [g EXCEPT !.continuationToken = resp.NextContinuationToken,
                                 !.directoryEntries = @ \o PushKeys(dir, g.prefix, resp.Contents)]
             IN  IF ~resp.IsTruncated
                 THEN RunEntries([g1 EXCEPT !.j = 1])
                 ELSE SendList(g1, dir)

\* variant: a rejected send ends the listing and the keys collected so far
\* are archived
OnListErrorPartial(g) == RunEntries([g EXCEPT !.j = 1])

\* lines 158-160: the send rejected
OnListError(g) == Throw(g, FailedToListObjectsError(g.prefix, "S3Error"))

\* variant: the error of an entry is kept and the loop goes on with the
\* next entry
OnGetResponseGoOn(g, outcome, a) ==
    IF outcome = "ok"
    THEN LET req == LastSent(g)
             e == g.cur
             g1 == [g EXCEPT !.appends = Append(@,
                        [stream |-> [client |-> req.client, Bucket |-> req.Bucket, Key |-> req.Key],
                         name |-> FileEntryName(e), rest |-> e.rest, data |-> AppendData(e),
                         accepted |-> ~Closed(a)])]
         IN  RunEntries(IF g.j > 0 THEN [g1 EXCEPT !.j = @ + 1] ELSE [g1 EXCEPT !.i = @ + 1])
    ELSE LET g1 == [g EXCEPT !.err = FailedToGetS3ObjectStreamError(g.cur.key, GetCause(outcome))]
         IN  RunEntries(IF g.j > 0 THEN [g1 EXCEPT !.j = @ + 1] ELSE [g1 EXCEPT !.i = @ + 1])

\* variant: a rejected GetObject is sent once more
OnGetResponseRetry(g, outcome, a) ==
    IF outcome = "ok"
    THEN LET req == LastSent(g)
             e == g.cur
             g1 == [g EXCEPT !.appends = Append(@,
                        [stream |-> [client |-> req.client, Bucket |-> req.Bucket, Key |-> req.Key],
                         name |-> FileEntryName(e), rest |-> e.rest, data |-> AppendData(e),
                         accepted |-> ~Closed(a)])]
         IN  RunEntries(IF g.j > 0 THEN [g1 EXCEPT !.j = @ + 1] ELSE [g1 EXCEPT !.i = @ + 1])
    ELSE IF outcome = "error" /\ (Len(g.bodies) < 2 \/ g.bodies[Len(g.bodies) - 1] # "error")
    THEN SendGet(g, g.cur)
    ELSE Throw(g, FailedToGetS3ObjectStreamError(g.cur.key, GetCause(outcome)))

\* variant: a body that is not a Readable is appended all the same
OnGetResponseNoValidate(g, outcome, a) ==
    IF outcome \in {"ok", "notreadable"}
    THEN LET req == LastSent(g)
             e == g.cur
             g1 == [g EXCEPT !.appends = Append(@,
                        [stream |-> [client |-> req.client, Bucket |-> req.Bucket, Key |-> req.Key],
                         name |-> FileEntryName(e), rest |-> e.rest, data |-> AppendData(e),
                         accepted |-> ~Closed(a)])]
         IN  RunEntries(IF g.j > 0 THEN [g1 EXCEPT !.j = @ + 1] ELSE [g1 EXCEPT !.i = @ + 1])
    ELSE Throw(g, FailedToGetS3ObjectStreamError(g.cur.key, GetCause(outcome)))

\* lines 183-198: after a GetObject response arrived
OnGetResponse(g, outcome, a) ==
    IF outcome = "ok"
    THEN LET req == LastSent(g)
             e == g.cur
             g1 == [g EXCEPT !.appends = Append(@,
                        [stream |-> [client |-> req.client, Bucket |-> req.Bucket, Key |-> req.Key],
                         name |-> FileEntryName(e), rest |-> e.rest, data |-> AppendData(e),
                         accepted |-> ~Closed(a)])]
         IN  RunEntries(IF g.j > 0 THEN [g1 EXCEPT !.j = @ + 1] ELSE [g1 EXCEPT !.i = @ + 1])
    ELSE Throw(g, FailedToGetS3ObjectStreamError(g.cur.key, GetCause(outcome)))

\* A GetObject send of group b settles and the task runs to its next await.
GetResponse(b) ==
    /\ b \in DOMAIN groups
    /\ groups[b].st = "get"
    /\ \E outcome \in GetOutcomes :
         LET g == OnGetResponse([groups[b] EXCEPT !.settled = @ + 1,
                                                 !.bodies = Append(@, outcome)],
                                outcome, archive)
             gs == [groups EXCEPT ![b] = g]
         IN  /\ groups' = gs
             /\ archive' = IF outcome = "ok" THEN ArchiveAppend(archive) ELSE archive
             /\ all' = PromiseAll(all, gs, order)
    /\ UNCHANGED <<entries, routing, pc, order, chain, escaped>>

\* A ListObjectsV2 send of group b settles and the task runs to its next await.
ListResponse(b) ==
    /\ b \in DOMAIN groups
    /\ groups[b].st = "list"
    /\ \E g \in {OnListError([groups[b] EXCEPT !.settled = @ + 1])} \cup
                {OnListResponse([groups[b] EXCEPT !.settled = @ + 1,
                                                  !.pages = Append(@, resp)], resp)
                    : resp \in ListPages(LastSent(groups[b]))} :
         LET gs == [groups EXCEPT ![b] = g]
         IN  /\ groups' = gs
             /\ all' = PromiseAll(all, gs, order)
    /\ UNCHANGED <<entries, routing, pc, order, chain, archive, escaped>>

\* ---------------------------------------------------- the promise chain
\* variant: the handler destroys the stream and leaves the archiver open
CatchHandlerNoAbort(a, e) == [archive |-> ArchiveDestroy(a, e), thrown |-> NoErr]

\* variant: the handler rethrows, as in ".catch((e) => { throw e; })"
CatchHandlerRethrow(a, e) == [archive |-> a, thrown |-> e]

\* lines 226-229: the catch handler; it returns normally
CatchHandler(a, e) == [archive |-> ArchiveAbort(ArchiveDestroy(a, e)), thrown |-> NoErr]

RunCatch(e) ==
    LET r == CatchHandler(archive, e)
    IN  /\ archive' = r.archive
        /\ escaped' = IF r.thrown = NoErr THEN escaped ELSE Append(escaped, r.thrown)
        /\ chain' = "caught"

\* line 225: Promise.all fulfilled, archive.finalize() is called
Then ==
    /\ pc = "returned"
    /\ all.st = "fulfilled"
    /\ chain = "pending"
    /\ archive' = ArchiveFinalize(archive)
    /\ chain' = "finalizing"
    /\ UNCHANGED <<entries, routing, pc, order, groups, all, escaped>>

\* the promise returned by archive.finalize() is fulfilled
FinalizeFulfilled ==
    /\ chain = "finalizing"
    /\ chain' = "fulfilled"
    /\ UNCHANGED <<entries, routing, pc, order, groups, all, archive, escaped>>

\* the promise returned by archive.finalize() is rejected: the catch handler runs
FinalizeRejected ==
    /\ chain = "finalizing"
    /\ RunCatch(FinalizeFailed)
    /\ UNCHANGED <<entries, routing, pc, order, groups, all>>

\* variant: the handler runs only once no group has a call outstanding
CatchWhenIdle ==
    /\ pc = "returned"
    /\ all.st = "rejected"
    /\ chain = "pending"
    /\ \A b \in DOMAIN groups : groups[b].st \notin {"list", "get"}
    /\ RunCatch(all.reason)
    /\ UNCHANGED <<entries, routing, pc, order, groups, all>>

\* lines 226-229: Promise.all rejected, then() passes the rejection on to catch()
Catch ==
    /\ pc = "returned"
    /\ all.st = "rejected"
    /\ chain = "pending"
    /\ RunCatch(all.reason)
    /\ UNCHANGED <<entries, routing, pc, order, groups, all>>

Next ==
    \/ S3ArchiveStream
    \/ \E b \in Buckets : GetResponse(b)
    \/ \E b \in Buckets : ListResponse(b)
    \/ Then
    \/ FinalizeFulfilled
    \/ FinalizeRejected
    \/ Catch

Spec == Init /\ [][Next]_vars


\* the catch step is a queued promise reaction: once enabled it runs
FairSpec == Spec /\ WF_vars(Catch) /\ WF_vars(Then)

\* The entries of the builds whose termination is checked: a directory listed
\* over several pages, a file key that is rejected, and a file of a second
\* bucket, which has no client under one of the routings.
LivePool ==
    { DirEntry("A", <<"d">>, FALSE, "r3"),
      FileEntry("A", <<"d", "/">>, FALSE, NoName, FALSE, "r1"),
      FileEntry("B", <<"f">>, TRUE, <<"n">>, TRUE, "r2") }

LiveInit ==
    /\ entries \in SeqsUpTo(LivePool, MaxEntries)
    /\ routing \in Routings
    /\ pc = "start"
    /\ order = <<>>
    /\ groups = [b \in {} |-> NewGroup(b, <<>>)]
    /\ all = Pending
    /\ chain = "pending"
    /\ archive = NewArchive
    /\ escaped = <<>>

\* a blob-store call that is outstanding settles
Responses == \E b \in Buckets : GetResponse(b) \/ ListResponse(b)

\* every blob-store call returns, with a result or an error, and the promise
\* reactions run
LiveSpec ==
    LiveInit /\ [][Next]_vars /\ WF_vars(Responses) /\ WF_vars(Catch) /\ WF_vars(Then)

\* builds of one entry, on the shared client
SingleInit ==
    /\ entries \in {<<e>> : e \in SinglePool}
    /\ routing \in {r \in Routings : r.single}
    /\ pc = "start"
    /\ order = <<>>
    /\ groups = [b \in {} |-> NewGroup(b, <<>>)]
    /\ all = Pending
    /\ chain = "pending"
    /\ archive = NewArchive
    /\ escaped = <<>>

SingleSpec == SingleInit /\ [][Next]_vars

\* ------------------------------------- directories of folder markers
\* The entries of the builds on bucket "C" with directories that hold only
\* folder markers ('m/' and 'm/s/'), next to a directory with an object and a
\* file entry.
MarkerPool ==
    { DirEntry("C", <<"m", "/">>, FALSE, "r2"),
      DirEntry("C", <<"m">>, TRUE, "r2"),
      DirEntry("C", <<"d", "/", "s">>, FALSE, "r3"),
      FileEntry("C", <<"d", "/", "a">>, FALSE, NoName, FALSE, "r1") }

MarkerInit ==
    /\ entries \in SeqsUpTo(MarkerPool, MaxEntries)
    /\ routing \in {r \in Routings : r.single}
    /\ pc = "start"
    /\ order = <<>>
    /\ groups = [b \in {} |-> NewGroup(b, <<>>)]
    /\ all = Pending
    /\ chain = "pending"
    /\ archive = NewArchive
    /\ escaped = <<>>

MarkerSpec == MarkerInit /\ [][Next]_vars

\* ------------------------------------- a writer whose append can throw
\* what an exception thrown by archive.append is, as a cause
AppendThrew == "archive.append threw"

\* lines 193-196: the body is a Readable, archive.append throws and the catch
\* of the try around the fetch receives what it threw
OnAppendThrow(g) ==
    LET req == LastSent(g)
        g1 == [g EXCEPT !.appends = Append(@,
                   [stream |-> [client |-> req.client, Bucket |-> req.Bucket, Key |-> req.Key],
                    name |-> FileEntryName(g.cur), rest |-> g.cur.rest,
                    data |-> AppendData(g.cur),
                    accepted |-> FALSE])]
    IN  Throw(g1, FailedToGetS3ObjectStreamError(g.cur.key, AppendThrew))

\* A GetObject send of group b settles with a readable body and the call of
\* archive.append throws.
AppendThrows(b) ==
    /\ b \in DOMAIN groups
    /\ groups[b].st = "get"
    /\ LET g == OnAppendThrow([groups[b] EXCEPT !.settled = @ + 1,
                                                !.bodies = Append(@, "ok")])
           gs == [groups EXCEPT ![b] = g]
       IN  /\ groups' = gs
           /\ all' = PromiseAll(all, gs, order)
    /\ UNCHANGED <<entries, routing, pc, order, chain, archive, escaped>>

NextThrowingWriter ==
    \/ Next
    \/ \E b \in Buckets : AppendThrows(b)

\* builds of one entry with a writer whose append can throw
ThrowingWriterSpec == SingleInit /\ [][NextThrowingWriter]_vars

\* ------------------------------------- a writer whose output is consumed
\* the streams that archive.append has put on the archiver's queue
RECURSIVE Queued(_)
Queued(bs) ==
    IF bs = <<>> THEN 0
    ELSE Len(SelectSeq(groups[Head(bs)].appends, LAMBDA c : c.accepted)) + Queued(Tail(bs))

\* The consumer of the returned stream reads, and the archiver takes the next
\* stream of its queue and drains it.  archive.append (line 193) returns as
\* soon as the stream is queued: no step of a group waits for this one.
Drain ==
    /\ pc = "returned"
    /\ ~archive.aborted
    /\ archive.drained < Queued(order)
    /\ archive' = [archive EXCEPT !.drained = @ + 1]
    /\ UNCHANGED <<entries, routing, pc, order, groups, all, chain, escaped>>

NextDraining ==
    \/ Next
    \/ Drain

\* builds of one entry whose stream is consumed at any pace, or not at all
DrainingSpec == SingleInit /\ [][NextDraining]_vars

\* ======================================================================
\* Properties
\* ======================================================================
IsPrefixOf(s, t) == Len(s) <= Len(t) /\ SubSeq(t, 1, Len(s)) = s

Failed(g) == g.st = "failed"
SomeGroupFailed == \E b \in DOMAIN groups : Failed(groups[b])

\* What the blob store holds for an entry, stated from the store alone: the
\* key of a file entry; for a directory entry every stored key under the
\* prefix that is not a folder marker, in listing order.
ResolvedKeys(e) ==
    IF e.type = "file" THEN <<[Key |-> e.key, rest |-> e.rest]>>
    ELSE LET p == IF EndsWithSlash(e.key) THEN e.key ELSE e.key \o <<"/">>
             ks == SelectSeq(Store[e.s3BucketName],
                             LAMBDA k : StartsWith(k, p) /\ k # <<>> /\ ~EndsWithSlash(k))
         IN  [n \in 1..Len(ks) |-> [Key |-> ks[n], rest |-> e.rest]]

RECURSIVE Resolved(_)
Resolved(es) == IF es = <<>> THEN <<>> ELSE ResolvedKeys(Head(es)) \o Resolved(Tail(es))

\* the entries of the input list that name bucket b, in input order
EntriesOf(b) == SelectSeq(entries, LAMBDA e : e.s3BucketName = b)

Appended(g) == [n \in 1..Len(g.appends) |-> [Key |-> g.appends[n].stream.Key,
                                              rest |-> g.appends[n].rest]]
Gets(g) == SelectSeq(g.sent, LAMBDA c : c.cmd = "GetObject")
Fetched(g) == [n \in 1..Len(Gets(g)) |-> Gets(g)[n].Key]
KeysOf(rs) == [n \in 1..Len(rs) |-> rs[n].Key]

\* C1: finalize is invoked only when every bucket group has completed with all
\* of its entries (file entries and every key expanded from its directory
\* entries) fetched and appended, and no append reaches the writer after
\* finalize was invoked.
C1_FinalizeAfterAllAppends ==
    /\ archive.finalizeCalls > 0 =>
         \A b \in DOMAIN groups :
            /\ groups[b].st = "done"
            /\ Appended(groups[b]) = Resolved(EntriesOf(b))
            /\ Fetched(groups[b]) = KeysOf(Resolved(EntriesOf(b)))
    /\ archive.appendAfterFinalize = 0

\* a finalized build of two groups that both appended, one from a directory
C1_Witness ==
    /\ archive.finalizeCalls = 1
    /\ Cardinality(DOMAIN groups) = 2
    /\ \A b \in DOMAIN groups : Len(groups[b].appends) >= 1
    /\ \E b \in DOMAIN groups : groups[b].archiveEntries[1].type = "dir"

\* C2: if any bucket group fails, finalize is never invoked and the writer is
\* aborted: the catch step destroys the stream with an error and aborts, and
\* it always comes.
C2_FailureAborts ==
    /\ [](SomeGroupFailed =>
            /\ archive.finalizeCalls = 0
            /\ all.st = "rejected"
            /\ chain \in {"pending", "caught"}
            /\ (chain = "caught" =>
                  archive.aborted /\ archive.destroyed /\ Len(archive.errors) >= 1))
    /\ (SomeGroupFailed ~> (archive.aborted /\ archive.destroyed))

\* a group failed on a rejected fetch and the writer was aborted
C2_Witness ==
    /\ \E b \in DOMAIN groups :
         Failed(groups[b]) /\ groups[b].err.kind = "FailedToGetS3ObjectStreamError"
    /\ archive.aborted
    /\ archive.finalizeCalls = 0


\* C3 as stated: one terminal operation in all, finalize or abort, and no
\* abort once finalize was invoked.
C3_OneTerminalCall ==
    /\ archive.finalizeCalls + archive.abortCalls <= 1
    /\ archive.abortAfterFinalize = 0

\* C3 (amended): finalize is invoked at most once and abort at most once; a
\* settled chain has invoked at least one of them; abort follows finalize only
\* when finalize itself reported a failure, and then exactly once.
C3_TerminalCalls ==
    /\ archive.finalizeCalls <= 1
    /\ archive.abortCalls <= 1
    /\ archive.destroyCalls = archive.abortCalls
    /\ (chain \in {"fulfilled", "caught"} => archive.finalizeCalls + archive.abortCalls >= 1)
    /\ (chain = "fulfilled" => archive.finalizeCalls = 1 /\ archive.abortCalls = 0)
    /\ (all.st = "rejected" => archive.finalizeCalls = 0)
    /\ (archive.abortAfterFinalize > 0 =>
          /\ archive.abortAfterFinalize = 1
          /\ all.st = "fulfilled"
          /\ archive.errors[1] = FinalizeFailed)

\* finalize was invoked, reported a failure, and the catch handler aborted
C3_Witness ==
    /\ archive.finalizeCalls = 1
    /\ archive.abortCalls = 1
    /\ chain = "caught"
    /\ \E b \in DOMAIN groups : Len(groups[b].appends) >= 1

\* C4: the output stream receives exactly one terminal error, the first
\* failure observed; no later failure and no later writer call adds another.
C4_SingleTerminalError ==
    /\ Len(archive.errors) <= 1
    /\ (all.st = "rejected" /\ chain = "caught" => archive.errors = <<all.reason>>)

C6_LiveAtReturn ==
    [][pc = "start" /\ pc' = "returned" =>
          /\ archive'.finalizeCalls = 0
          /\ archive'.abortCalls = 0
          /\ archive'.destroyCalls = 0
          /\ ~Closed(archive')
          /\ chain' = "pending"]_vars

\* the call has returned with Promise.all already settled (an empty list, a
\* missing client or an invalid first key) and the writer untouched
C6_Witness ==
    /\ pc = "returned"
    /\ all.st # "pending"
    /\ chain = "pending"
    /\ ~Closed(archive)
    /\ \/ entries = <<>>
       \/ all.reason.kind \in {"NoS3ClientProvidedForBucketError", "InvalidS3KeyError"}

C8_OneFetchOneAppendPerEntry ==
    /\ archive.finalizeCalls > 0 =>
         /\ DOMAIN groups = {entries[k].s3BucketName : k \in 1..Len(entries)}
         /\ \A b \in DOMAIN groups :
              LET want == KeysOf(Resolved(EntriesOf(b)))
                  g == groups[b]
              IN  /\ Fetched(g) = want
                  /\ Len(g.appends) = Len(want)
                  /\ \A n \in 1..Len(want) :
                        /\ g.appends[n].stream.Key = want[n]
                        /\ g.appends[n].stream.Bucket = b
                        /\ g.appends[n].accepted
    /\ (pc = "returned" /\ chain # "pending" /\ ~SomeGroupFailed => archive.finalizeCalls = 1)

\* a finalized build of a file entry and a directory entry
C8_Witness ==
    /\ archive.finalizeCalls = 1
    /\ Len(entries) = 2
    /\ \E k \in 1..2 : entries[k].type = "dir"
    /\ \E k \in 1..2 : entries[k].type = "file"

\* C9: every list and fetch call of a group names the bucket of that group's
\* entries and goes to the client resolved for that bucket: the shared client
\* when one client was given, else the client mapped to that bucket.
C9_CallsRouted ==
    \A b \in DOMAIN groups :
        \A n \in 1..Len(groups[b].sent) :
            LET c == groups[b].sent[n]
            IN  /\ c.Bucket = b
                /\ \E k \in 1..Len(entries) : entries[k].s3BucketName = c.Bucket
                /\ IF routing.single THEN c.client = routing.client
                   ELSE /\ c.Bucket \in DOMAIN routing.map
                        /\ c.client = routing.map[c.Bucket]
                        /\ \A o \in DOMAIN routing.map \ {c.Bucket} : c.client # routing.map[o]

\* with a mapping, both buckets have issued calls, each to its own client
C9_Witness ==
    /\ ~routing.single
    /\ DOMAIN groups = {"A", "B"}
    /\ \A b \in DOMAIN groups : Len(groups[b].sent) >= 1
    /\ groups["A"].sent[1].client # groups["B"].sent[1].client

\* C10: a bucket without a client in the mapping has its group rejected with
\* NoS3ClientProvidedForBucketError for that bucket, and that group never
\* issues a list or fetch call, nor an append.
C10_NoClientNoIO ==
    \A b \in DOMAIN groups :
        (~routing.single /\ b \notin DOMAIN routing.map) =>
            /\ groups[b].st = "failed"
            /\ groups[b].err = NoS3ClientProvidedForBucketError(b)
            /\ groups[b].sent = <<>>
            /\ groups[b].appends = <<>>

\* bucket B has entries and no client, while bucket A's group went on
C10_Witness ==
    /\ ~routing.single
    /\ "B" \in DOMAIN groups
    /\ "B" \notin DOMAIN routing.map
    /\ Len(groups["B"].archiveEntries) >= 1
    /\ "A" \in DOMAIN groups
    /\ Len(groups["A"].sent) >= 1


HasClient(b) == routing.single \/ b \in DOMAIN routing.map
ValidKey(k) == k # <<>> /\ k[Len(k)] # "/"

\* the call an entry begins with: a list of its prefix or a fetch of its key
FirstCallOf(e, c) ==
    /\ c.Bucket = e.s3BucketName
    /\ IF e.type = "dir"
       THEN c.cmd = "ListObjectsV2" /\ c.Token = NoToken
            /\ c.Key = (IF EndsWithSlash(e.key) THEN e.key ELSE e.key \o <<"/">>)
       ELSE c.cmd = "GetObject" /\ c.Key = e.key

\* C11: when some bucket has no client, every bucket whose client resolves
\* has, by the time the call returns, issued the first blob-store call of its
\* first entry (a first entry with an invalid key has none), wherever the
\* failing group stands in dispatch order; the build ends aborted, never
\* finalized.
C11_OtherGroupsStart ==
    (pc = "returned" /\ \E b \in DOMAIN groups : ~HasClient(b)) =>
        /\ \A b \in DOMAIN groups :
             LET e == EntriesOf(b)[1]
             IN  (HasClient(b) /\ (e.type = "dir" \/ ValidKey(e.key))) =>
                    /\ Len(groups[b].sent) >= 1
                    /\ FirstCallOf(e, groups[b].sent[1])
        /\ all.st = "rejected"
        /\ archive.finalizeCalls = 0
        /\ (chain # "pending" => chain = "caught" /\ archive.aborted)

\* the group dispatched first has no client, the group dispatched after it
\* has issued its call, and the build was aborted
C11_Witness ==
    /\ Len(order) = 2
    /\ ~HasClient(order[1])
    /\ HasClient(order[2])
    /\ Len(groups[order[2]].sent) >= 1
    /\ archive.aborted


C13_FetchFailed ==
    \A b \in DOMAIN groups :
        LET g == groups[b]
        IN  /\ Len(g.bodies) <= Len(Gets(g))
            /\ \A n \in 1..Len(g.bodies) :
                 IF g.bodies[n] = "ok"
                 THEN /\ Len(g.appends) >= n
                      /\ g.appends[n].stream.Key = Gets(g)[n].Key
                 ELSE /\ n = Len(g.bodies)
                      /\ n = Len(Gets(g))
                      /\ Len(g.appends) = n - 1
                      /\ g.st = "failed"
                      /\ g.err.kind = "FailedToGetS3ObjectStreamError"
                      /\ g.err.arg = Gets(g)[n].Key
                      /\ g.err.cause =
                            (IF g.bodies[n] = "error" THEN "S3Error"
                             ELSE "S3 Object stream is null or not a Readable stream.")

\* a second fetch of a group brought a body that is not a readable stream
C13_Witness ==
    \E b \in DOMAIN groups :
        /\ Len(groups[b].bodies) = 2
        /\ groups[b].bodies[2] = "notreadable"
        /\ Len(groups[b].appends) = 1
        /\ archive.aborted


\* the calls and appends of the single group of a one-entry build
TheGroup == groups[entries[1].s3BucketName]

\* C14: a directory entry whose prefix matches zero keys (one first page with
\* match count 0 that is not truncated) fails the build with an error of a
\* kind of its own, not the kind of a failed listing, and nothing is appended
\* for the directory.
C14_EmptyDirectoryKind ==
    (/\ pc = "returned"
     /\ entries[1].type = "dir"
     /\ Len(TheGroup.pages) = 1
     /\ TheGroup.pages[1].KeyCount = 0
     /\ ~TheGroup.pages[1].IsTruncated) =>
        /\ TheGroup.st = "failed"
        /\ TheGroup.err.kind # "FailedToListObjectsError"
        /\ TheGroup.appends = <<>>


Lists(g) == SelectSeq(g.sent, LAMBDA c : c.cmd = "ListObjectsV2")

\* the listing call that g sent last was rejected
ListingCallFailed(g) ==
    /\ g.sent # <<>>
    /\ LastSent(g).cmd = "ListObjectsV2"
    /\ g.settled = Len(g.sent)
    /\ Len(g.pages) < Len(Lists(g))

\* C15: when a listing call of a directory entry is rejected, on the first or
\* on a later page, the group has failed with FailedToListObjectsError
\* carrying the prefix with its trailing '/' and the cause, and no object of
\* the directory was fetched or appended; a fetch is sent only after a page
\* that is not truncated was received, and no listing call follows a fetch.
C15_ListingFailed ==
    LET g == TheGroup
        e == entries[1]
    IN  (pc = "returned" /\ e.type = "dir") =>
            /\ ListingCallFailed(g) =>
                 /\ g.st = "failed"
                 /\ g.err.kind = "FailedToListObjectsError"
                 /\ g.err.arg = (IF e.key # <<>> /\ e.key[Len(e.key)] = "/"
                                 THEN e.key ELSE e.key \o <<"/">>)
                 /\ g.err.cause = "S3Error"
                 /\ Gets(g) = <<>>
                 /\ g.appends = <<>>
            /\ g.st = "list" => Gets(g) = <<>> /\ g.appends = <<>>
            /\ Gets(g) # <<>> =>
                 /\ g.pages # <<>>
                 /\ ~g.pages[Len(g.pages)].IsTruncated
                 /\ Len(g.pages) = Len(Lists(g))
                 /\ \A n \in 1..Len(g.sent) :
                      g.sent[n].cmd = "ListObjectsV2" <=> n <= Len(g.pages)

\* the listing call for a later page was rejected after keys had been collected
C15_Witness ==
    /\ entries[1].type = "dir"
    /\ pc = "returned"
    /\ ListingCallFailed(TheGroup)
    /\ Len(TheGroup.pages) >= 2
    /\ TheGroup.directoryEntries # <<>>
    /\ archive.aborted


\* a listed key that is not a folder marker
NonMarker(k) == k # <<>> /\ k[Len(k)] # "/"

\* the non-marker keys of a sequence of pages, in page order
RECURSIVE PagesKeys(_)
PagesKeys(ps) ==
    IF ps = <<>> THEN <<>>
    ELSE SelectSeq(Head(ps).Contents, NonMarker) \o PagesKeys(Tail(ps))

NoDuplicates(q) == \A m, n \in 1..Len(q) : q[m] = q[n] => m = n

\* the empty first page that line 134 turns into an error
EmptyFirstPage(p) == p.ContinuationToken = NoToken /\ p.KeyCount = 0

RECURSIVE Listed(_)
Listed(ps) == IF ps = <<>> THEN <<>> ELSE Head(ps).Contents \o Listed(Tail(ps))

\* a listed key that is empty, is the prefix itself or ends in '/'
FolderMarker(k, prefix) == k = <<>> \/ k = prefix \/ k[Len(k)] = "/"

\* C17: under a directory entry, a listed key that is empty, equal to the
\* prefix or ending in '/' is skipped: it is never fetched, never appended and
\* never fails the build; the other listed keys are fetched and appended in
\* listing order, all of them once the group is done.
C17_MarkersSkipped ==
    LET g == TheGroup
        kept == SelectSeq(Listed(g.pages), LAMBDA k : ~FolderMarker(k, Lists(g)[1].Key))
    IN  (pc = "returned" /\ entries[1].type = "dir") =>
            /\ \A n \in 1..Len(Gets(g)) : ~FolderMarker(Gets(g)[n].Key, Lists(g)[1].Key)
            /\ \A n \in 1..Len(g.appends) :
                 ~FolderMarker(g.appends[n].stream.Key, Lists(g)[1].Key)
            /\ g.st = "failed" => g.err.kind # "InvalidS3KeyError"
            /\ Gets(g) # <<>> => IsPrefixOf(Fetched(g), kept)
            /\ IsPrefixOf(KeysOf(Appended(g)), Fetched(g))
            /\ g.st = "done" => Fetched(g) = kept /\ KeysOf(Appended(g)) = kept

\* the prefix itself and a sub-folder marker were listed, and the group is done
C17_Witness ==
    /\ entries[1].type = "dir"
    /\ pc = "returned"
    /\ TheGroup.st = "done"
    /\ \E n \in 1..Len(Listed(TheGroup.pages)) :
          Listed(TheGroup.pages)[n] = Lists(TheGroup)[1].Key
    /\ \E n \in 1..Len(Listed(TheGroup.pages)) :
          /\ Listed(TheGroup.pages)[n] # Lists(TheGroup)[1].Key
          /\ FolderMarker(Listed(TheGroup.pages)[n], Lists(TheGroup)[1].Key)
    /\ Len(TheGroup.appends) = 2


\* the part of key after its last '/': the suffix without '/' that is the
\* whole key or is preceded by a '/'
AfterLastSlash(key) ==
    CHOOSE t \in {SubSeq(key, m, Len(key)) : m \in 1..(Len(key) + 1)} :
        /\ \A n \in 1..Len(t) : t[n] # "/"
        /\ (Len(t) = Len(key) \/ key[Len(key) - Len(t)] = "/")

\* C18: the stream of a file entry is appended under the explicit name when
\* the entry has one, whatever preserveFolderStructure is; else under the full
\* key when preserveFolderStructure is set; else under the part of the key
\* after its last '/', the key itself when it has no '/'.
C18_FileEntryName ==
    LET g == TheGroup
        e == entries[1]
    IN  (pc = "returned" /\ e.type = "file" /\ g.appends # <<>>) =>
            /\ Len(g.appends) = 1
            /\ g.appends[1].stream.Key = e.key
            /\ g.appends[1].name =
                 (IF e.hasName THEN e.name
                  ELSE IF e.preserveFolderStructure THEN e.key
                  ELSE AfterLastSlash(e.key))
            /\ (~e.hasName /\ ~e.preserveFolderStructure
                  /\ \A n \in 1..Len(e.key) : e.key[n] # "/") => g.appends[1].name = e.key

\* a key with two '/' was appended under its last segment, without explicit name
C18_Witness ==
    /\ pc = "returned"
    /\ entries[1].type = "file"
    /\ entries[1].key = <<"/", "/", "a">>
    /\ ~entries[1].hasName
    /\ ~entries[1].preserveFolderStructure
    /\ Len(TheGroup.appends) = 1
    /\ TheGroup.appends[1].name = <<"a">>


\* key with the leading p removed, for a key that starts with p
WithoutLeading(key, p) ==
    CHOOSE t \in {SubSeq(key, m, Len(key)) : m \in 1..(Len(key) + 1)} : p \o t = key

\* C19: every key K listed under a directory entry of normalized prefix P is
\* appended under K itself when preserveFolderStructure is set, and under K
\* with the leading P removed otherwise, sub-folders below P staying in the
\* name.
C19_DirectoryEntryName ==
    LET g == TheGroup
        e == entries[1]
        P == IF e.key # <<>> /\ e.key[Len(e.key)] = "/" THEN e.key ELSE e.key \o <<"/">>
    IN  (pc = "returned" /\ e.type = "dir") =>
            \A n \in 1..Len(g.appends) :
                LET K == g.appends[n].stream.Key
                IN  /\ IsPrefixOf(P, K)
                    /\ g.appends[n].name =
                         (IF e.preserveFolderStructure THEN K ELSE WithoutLeading(K, P))

\* prefix 'd/' and key 'd/s/b' gave the name 's/b'
C19_Witness ==
    /\ pc = "returned"
    /\ entries[1].type = "dir"
    /\ entries[1].key = <<"d">>
    /\ ~entries[1].preserveFolderStructure
    /\ \E n \in 1..Len(TheGroup.appends) :
          /\ TheGroup.appends[n].stream.Key = <<"d", "/", "s", "/", "b">>
          /\ TheGroup.appends[n].name = <<"s", "/", "b">>


\* the blob-store calls of group b that were sent and have not settled
Outstanding(b) == Len(groups[b].sent) - groups[b].settled

RECURSIVE TotalOutstanding(_)
TotalOutstanding(bs) ==
    IF bs = <<>> THEN 0 ELSE Outstanding(Head(bs)) + TotalOutstanding(Tail(bs))

\* C20: at every moment each bucket group has at most one blob-store call
\* (list or fetch) outstanding, and has one exactly while it waits for it, so
\* the calls outstanding in total never exceed the number of distinct bucket
\* names of the entry list.
C20_OneCallPerGroup ==
    pc = "returned" =>
        /\ \A b \in DOMAIN groups :
             /\ Outstanding(b) \in {0, 1}
             /\ Outstanding(b) = 1 <=> groups[b].st \in {"list", "get"}
        /\ TotalOutstanding(order)
             <= Cardinality({entries[n].s3BucketName : n \in 1..Len(entries)})

\* two bucket groups each wait for a call, one for a listing and one for a
\* fetch
C20_Witness ==
    /\ pc = "returned"
    /\ Len(order) = 2
    /\ TotalOutstanding(order) = 2
    /\ \E b \in DOMAIN groups : groups[b].st = "list"
    /\ \E b \in DOMAIN groups : groups[b].st = "get" /\ groups[b].settled >= 1


\* C21: once the writer has been aborted because a group failed, no append is
\* issued to it: a group whose fetch completes after the abort does not call
\* append on the aborted writer.
C21_NoAppendAfterAbort ==
    /\ archive.appendAfterAbort = 0
    /\ \A b \in DOMAIN groups :
         \A n \in 1..Len(groups[b].appends) : groups[b].appends[n].accepted


\* C22: no blob-store call is sent again: the fetches of a group are, in
\* order and each once, a beginning of the keys its entries resolve to; a
\* listing never asks twice for the same page of one directory entry; a group
\* that failed sends nothing more; and as soon as one group has failed the
\* build is rejected, is never finalized and ends aborted with that error.
C22_NoRetry ==
    /\ \A b \in DOMAIN groups :
         LET g == groups[b]
             L == Lists(g)
             dirs == SelectSeq(EntriesOf(b), LAMBDA e : e.type = "dir")
         IN  /\ IsPrefixOf(Fetched(g), KeysOf(Resolved(EntriesOf(b))))
             /\ Len(g.bodies) <= Len(Gets(g))
             /\ Len(SelectSeq(L, LAMBDA c : c.Token = NoToken)) <= Len(dirs)
             /\ \A m, n \in 1..Len(L) :
                  (m < n /\ L[m].Token = L[n].Token /\ L[m].Key = L[n].Key) =>
                      \E k \in (m + 1)..n : L[k].Token = NoToken
             /\ Failed(g) => g.settled = Len(g.sent)
    /\ SomeGroupFailed =>
         /\ all.st = "rejected"
         /\ archive.finalizeCalls = 0
         /\ chain \in {"pending", "caught"}
         /\ chain = "caught" =>
              /\ archive.aborted
              /\ archive.errors[1] = all.reason
              /\ \E b \in DOMAIN groups : Failed(groups[b]) /\ groups[b].err = all.reason

\* a fetch was rejected after a listing of the same group, and the build is
\* aborted with that error
C22_Witness ==
    \E b \in DOMAIN groups :
        /\ Failed(groups[b])
        /\ groups[b].err.kind = "FailedToGetS3ObjectStreamError"
        /\ groups[b].bodies[Len(groups[b].bodies)] = "error"
        /\ Lists(groups[b]) # <<>>
        /\ chain = "caught"
        /\ archive.errors[1] = groups[b].err


\* the number of '/' that s ends with
RECURSIVE TrailingSlashes(_)
TrailingSlashes(s) ==
    IF s = <<>> \/ s[Len(s)] # "/" THEN 0
    ELSE 1 + TrailingSlashes(SubSeq(s, 1, Len(s) - 1))

\* C23: the prefix a directory entry is listed with, and that is stripped
\* from the names, ends with exactly one '/', for every s3Dir: one that ends
\* with several '/' and the empty one included.
C23_ExactlyOneSlash ==
    (pc = "returned" /\ entries[1].type = "dir") =>
        /\ TrailingSlashes(TheGroup.prefix) = 1
        /\ \A n \in 1..Len(Lists(TheGroup)) : TrailingSlashes(Lists(TheGroup)[n].Key) = 1


\* C24: a first listing page with zero keys that is truncated does not raise
\* the empty-directory error: the listing goes on with the next page, and the
\* error is raised only for a first page with zero keys and no further page.
C24_TruncatedEmptyFirstPage ==
    LET g == TheGroup
    IN  (/\ pc = "returned"
         /\ entries[1].type = "dir"
         /\ g.pages # <<>>
         /\ g.pages[1].KeyCount = 0
         /\ g.pages[1].IsTruncated) =>
            /\ Len(Lists(g)) >= 2
            /\ Lists(g)[2].Token = g.pages[1].NextContinuationToken
            /\ ~(Failed(g) /\ g.err.cause = "The provided directory is empty.")


\* C25: a page after the first that is truncated and has no keys adds no
\* entry and raises no error: the next page is requested with its token, and
\* the listing ends with the page that is not truncated.
C25_EmptyContinuationPage ==
    LET g == TheGroup
        P == g.pages
    IN  (pc = "returned" /\ entries[1].type = "dir") =>
            /\ \A n \in 2..Len(P) :
                 (P[n].KeyCount = 0 /\ P[n].IsTruncated) =>
                     /\ Len(Lists(g)) >= n + 1
                     /\ Lists(g)[n + 1].Token = P[n].NextContinuationToken
                     /\ PagesKeys(SubSeq(P, 1, n)) = PagesKeys(SubSeq(P, 1, n - 1))
            /\ (Failed(g) /\ g.err.cause = "The provided directory is empty.") => Len(P) = 1
            /\ g.st = "list" =>
                 [n \in 1..Len(g.directoryEntries) |-> g.directoryEntries[n].key] = PagesKeys(P)
            /\ (Len(P) >= 2 /\ ~P[Len(P)].IsTruncated) =>
                 /\ Len(Lists(g)) = Len(P)
                 /\ g.st # "list"
                 /\ Failed(g) => g.err.kind = "FailedToGetS3ObjectStreamError"

\* an empty truncated page came after the first page, and the directory was
\* archived to its end
C25_Witness ==
    /\ pc = "returned"
    /\ entries[1].type = "dir"
    /\ \E n \in 2..Len(TheGroup.pages) :
          TheGroup.pages[n].KeyCount = 0 /\ TheGroup.pages[n].IsTruncated
    /\ TheGroup.st = "done"
    /\ Len(TheGroup.appends) = 2


\* C26: an error raised by the writer while an entry is appended is the
\* build's terminal error as it is: it is not wrapped as
\* FailedToGetS3ObjectStreamError nor as another error of this module.
C26_WriterErrorPassedThrough ==
    \A b \in DOMAIN groups :
        LET g == groups[b]
        IN  (/\ Failed(g)
             /\ g.bodies # <<>>
             /\ g.bodies[Len(g.bodies)] = "ok"
             /\ Len(g.appends) = Len(g.bodies)) =>
                /\ g.err.kind \notin {"FailedToGetS3ObjectStreamError", "FailedToListObjectsError",
                                      "InvalidS3KeyError", "NoS3ClientProvidedForBucketError"}
                /\ chain = "caught" => archive.errors[1].kind # "FailedToGetS3ObjectStreamError"


\* C27: as soon as one group has failed, the step that destroys and aborts
\* the writer can be taken, whatever calls the other groups still have
\* outstanding, and it is taken only after a failure; finalize is called only
\* when every group is done and no call is outstanding.
C27_AbortImmediate ==
    pc = "returned" =>
        /\ (SomeGroupFailed /\ chain = "pending") => ENABLED Catch
        /\ (archive.abortCalls > 0 /\ archive.finalizeCalls = 0) => SomeGroupFailed
        /\ archive.finalizeCalls > 0 =>
             \A b \in DOMAIN groups : groups[b].st = "done" /\ Outstanding(b) = 0

\* the writer was aborted for a failed fetch while another group was waiting
\* for a call
C27_Witness ==
    /\ chain = "caught"
    /\ archive.aborted
    /\ \E b \in DOMAIN groups :
          Failed(groups[b]) /\ groups[b].err.kind = "FailedToGetS3ObjectStreamError"
    /\ \E b \in DOMAIN groups : Outstanding(b) = 1


\* the streams that were fetched and queued and that the writer has not drained
Undrained == Queued(order) - archive.drained

\* C28: while the writer's output is not consumed a group does not run ahead
\* with its remaining entries: the streams fetched and appended but not yet
\* drained stay within one per group, however many keys the entries resolve to.
C28_Backpressure ==
    pc = "returned" => Undrained <= Len(order)


\* C29: when every blob-store call returns and every listing comes to a page
\* that is not truncated, a build that was started invokes finalize or abort
\* on the writer: the writer does not stay open for entries forever.
C29_Terminates ==
    (pc = "returned") ~> (archive.finalizeCalls > 0 \/ archive.abortCalls > 0)

\* two groups, one with a listing of several pages, were archived and the
\* writer finalized
C29_Witness ==
    /\ Len(order) = 2
    /\ \E b \in DOMAIN groups : Len(groups[b].pages) >= 2 /\ groups[b].st = "done"
    /\ archive.finalizeCalls = 1
    /\ archive.abortCalls = 0


\* C30: every fetch of a group names, in the group's bucket, a key that is
\* not empty, does not end with '/' and is the key of one of its file entries
\* or a key that a listing returned; every append follows the fetch of the
\* same key and bucket that brought a readable body; the s3Dir of a directory
\* entry is never fetched or appended itself.
C30_OnlyFilesFetched ==
    \A b \in DOMAIN groups :
        LET g == groups[b]
            G == Gets(g)
            es == EntriesOf(b)
        IN  /\ \A n \in 1..Len(G) :
                 /\ G[n].Key # <<>>
                 /\ G[n].Key[Len(G[n].Key)] # "/"
                 /\ G[n].Bucket = b
                 /\ \/ \E m \in 1..Len(es) : es[m].type = "file" /\ es[m].key = G[n].Key
                    \/ \E m \in 1..Len(Listed(g.pages)) : Listed(g.pages)[m] = G[n].Key
            /\ Len(g.appends) <= Len(g.bodies)
            /\ \A n \in 1..Len(g.appends) :
                 /\ g.bodies[n] = "ok"
                 /\ g.appends[n].stream.Key = G[n].Key
                 /\ g.appends[n].stream.Bucket = G[n].Bucket
                 /\ g.appends[n].stream.client = G[n].client

\* a directory entry and a file entry of one group were archived: the listed
\* object and the file were fetched, the directory was not
C30_Witness ==
    \E b \in DOMAIN groups :
        /\ Len(EntriesOf(b)) = 2
        /\ EntriesOf(b)[1].type = "dir"
        /\ EntriesOf(b)[2].type = "file"
        /\ groups[b].st = "done"
        /\ Len(Gets(groups[b])) = 2
        /\ archive.finalizeCalls = 1


\* C31: the data an entry is appended with are the name and the entry's own
\* metadata unchanged, the directory entry's metadata for a key expanded from
\* it; the bucket name, the key or prefix and preserveFolderStructure are
\* never in them.
C31_MetadataPassedThrough ==
    \A b \in DOMAIN groups :
        LET g == groups[b]
            R == Resolved(EntriesOf(b))
        IN  \A n \in 1..Len(g.appends) :
                LET data == g.appends[n].data
                IN  /\ DOMAIN data = {"name", "meta"}
                    /\ data.meta = R[n].rest
                    /\ data.name = g.appends[n].name
                    /\ g.appends[n].stream.Key = R[n].Key

\* a key expanded from a directory entry and a file entry with other metadata
\* were appended by one group
C31_Witness ==
    \E b \in DOMAIN groups :
        /\ Len(groups[b].appends) = 2
        /\ EntriesOf(b)[1].type = "dir"
        /\ groups[b].appends[1].data.meta = EntriesOf(b)[1].rest
        /\ groups[b].appends[2].data.meta = EntriesOf(b)[2].rest
        /\ EntriesOf(b)[1].rest # EntriesOf(b)[2].rest


\* C32: no step of a build changes the caller's entry list, an entry record
\* or the client routing; the list of each group holds the caller's entries
\* of that bucket as they are, and the entries expanded from a directory are
\* kept in a list of their own.
C32_InputsUnchanged ==
    /\ [][entries' = entries /\ routing' = routing]_vars
    /\ [](\A b \in DOMAIN groups :
            /\ groups[b].archiveEntries = EntriesOf(b)
            /\ \A n \in 1..Len(groups[b].directoryEntries) :
                 groups[b].directoryEntries[n].type = "file")

\* a build of a directory entry and an entry of another bucket has settled,
\* finalized or aborted, after keys were expanded and appended
C32_Witness ==
    /\ Len(entries) = 2
    /\ Len(order) = 2
    /\ entries[1].type = "dir"
    /\ groups[entries[1].s3BucketName].appends # <<>>
    /\ chain \in {"fulfilled", "caught"}


\* C33: a group in which an entry has failed has stopped: it has no call
\* outstanding, what it fetched and listed belongs to the entries up to the
\* failing one, and no later step sends a call or appends for it, so the
\* entries after the failing one are never processed.
C33_FailedGroupStops ==
    /\ [](\A b \in DOMAIN groups :
            LET g == groups[b]
                upTo == SubSeq(EntriesOf(b), 1, g.i)
            IN  g.err # NoErr =>
                    /\ g.st = "failed"
                    /\ g.settled = Len(g.sent)
                    /\ g.i <= Len(g.archiveEntries)
                    /\ IsPrefixOf(Fetched(g), KeysOf(Resolved(upTo)))
                    /\ Len(SelectSeq(Lists(g), LAMBDA c : c.Token = NoToken))
                         <= Len(SelectSeq(upTo, LAMBDA e : e.type = "dir"))
                    /\ Len(g.appends) <= Len(Fetched(g)))
    /\ [][\A b \in DOMAIN groups :
            groups[b].err # NoErr =>
                /\ groups'[b].sent = groups[b].sent
                /\ groups'[b].appends = groups[b].appends
                /\ groups'[b] = groups[b]]_vars

\* the first of two entries of a group failed on its fetch; the second was
\* never processed and the build is aborted
C33_Witness ==
    \E b \in DOMAIN groups :
        /\ Len(groups[b].archiveEntries) = 2
        /\ groups[b].archiveEntries[1].type = "file"
        /\ groups[b].i = 1
        /\ groups[b].err.kind = "FailedToGetS3ObjectStreamError"
        /\ Len(groups[b].sent) = 1
        /\ groups[b].appends = <<>>
        /\ chain = "caught"


\* C34 (as stated): with an empty entry list the build issues no blob-store
\* call and no append, finalizes the writer and does not abort it.
C34_EmptyListNeverAborts ==
    (entries = <<>> /\ pc = "returned") =>
        /\ DOMAIN groups = {}
        /\ chain # "pending" => archive.finalizeCalls = 1
        /\ archive.abortCalls = 0

\* C34 (amended): with an empty entry list there is no group, no blob-store
\* call and no append; the build always comes to call finalize, once, as the
\* first call on the writer, and aborts only if that finalize reports a
\* failure.
C34_EmptyListFinalizes ==
    /\ []((entries = <<>> /\ pc = "returned") =>
            /\ DOMAIN groups = {}
            /\ order = <<>>
            /\ all.st = "fulfilled"
            /\ chain # "pending" => archive.finalizeCalls = 1
            /\ archive.abortCalls > 0 =>
                 /\ archive.finalizeCalls = 1
                 /\ archive.abortCalls = 1
                 /\ archive.errors = <<FinalizeFailed>>)
    /\ ((entries = <<>> /\ pc = "returned") ~> (archive.finalizeCalls = 1))

\* the build of an empty list was finalized and gave its archive
C34_Witness ==
    /\ entries = <<>>
    /\ chain = "fulfilled"
    /\ archive.finalizeCalls = 1
    /\ archive.abortCalls = 0
    /\ archive.errors = <<>>


\* the store holds keys under the prefix of directory entry e, folder markers
\* all of them
OnlyMarkers(e) ==
    LET p == IF e.key # <<>> /\ e.key[Len(e.key)] = "/" THEN e.key ELSE e.key \o <<"/">>
        ks == SelectSeq(Store[e.s3BucketName], LAMBDA k : IsPrefixOf(p, k))
    IN  /\ e.type = "dir"
        /\ ks # <<>>
        /\ \A n \in 1..Len(ks) : ks[n][Len(ks[n])] = "/"

\* C35: a directory entry whose listing reports keys that are all folder
\* markers expands to no entry and to no error: the empty-directory error
\* comes only from a first page that reports zero keys, nothing under the
\* directory is fetched or appended, and the group goes on with its next
\* entry, so that a group that is done has fetched the keys of its other
\* entries.
C35_OnlyMarkersNoError ==
    \A b \in DOMAIN groups :
        LET g == groups[b]
            es == EntriesOf(b)
        IN  /\ (Failed(g) /\ g.err.cause = "The provided directory is empty.") =>
                 /\ g.pages # <<>>
                 /\ g.pages[Len(g.pages)].KeyCount = 0
                 /\ g.pages[Len(g.pages)].ContinuationToken = NoToken
            /\ (Failed(g) /\ OnlyMarkers(es[g.i])) =>
                 /\ g.err.kind = "FailedToListObjectsError"
                 /\ g.err.cause \in {"S3Error", "The provided directory is empty."}
            /\ \A k \in 1..Len(es) :
                 OnlyMarkers(es[k]) =>
                     /\ \A n \in 1..Len(Gets(g)) : ~IsPrefixOf(es[k].key, Gets(g)[n].Key)
                     /\ \A n \in 1..Len(g.appends) :
                          ~IsPrefixOf(es[k].key, g.appends[n].stream.Key)
            /\ IsPrefixOf(Fetched(g), KeysOf(Resolved(es)))
            /\ g.st = "done" =>
                 /\ Fetched(g) = KeysOf(Resolved(es))
                 /\ KeysOf(Appended(g)) = KeysOf(Resolved(es))

\* a directory of folder markers only was listed with a non-zero key count,
\* and the group went on to fetch and append its next entry
C35_Witness ==
    /\ Len(entries) = 2
    /\ OnlyMarkers(entries[1])
    /\ entries[2].type = "file"
    /\ pc = "returned"
    /\ TheGroup.st = "done"
    /\ TheGroup.pages[1].KeyCount > 0
    /\ Len(TheGroup.appends) = 1
    /\ archive.finalizeCalls = 1

====
